---------------------------- MODULE Spec2Model ----------------------------
(***************************************************************************)
(* A state-machine model of the RBIH MIS dashboard (src/app.py).           *)
(*                                                                         *)
(* The program is a Streamlit script: every user interaction runs the      *)
(* script from its first line to its last (or to st.stop(), st.rerun() or  *)
(* an uncaught exception).  What survives between two runs is the session  *)
(* state (login, role, the widgets' values) and the workbook file.  One    *)
(* action of the model is one user interaction with the whole script run   *)
(* it triggers; `out` records what that run computed and rendered.         *)
(*                                                                         *)
(* Numbers are fixed-point thousandths (45.5 is 45500), dates are the      *)
(* integer yyyymmdd, strings are TLA+ strings (sequences of characters).   *)
(***************************************************************************)
EXTENDS Integers, Sequences, FiniteSets, TLC

VARIABLES
    login,      \* st.session_state.login
    role,       \* st.session_state.role ("" while the key is not set)
    u,          \* the Username text input of the last login attempt
    p,          \* the Password text input of the last login attempt
    file,       \* the workbook FILE_PATH as pd.read_excel returns it
    appends,    \* number of records saved so far in this session
    out         \* what the last script run computed and rendered

vars == <<login, role, u, p, file, appends, out>>

----------------------------------------------------------------------------
(* Evaluation.  Python evaluates an expression once and names its value;   *)
(* Bind(v, F) is F applied to the value of v.                              *)

Bind(v, F(_)) == CHOOSE o \in {F(x) : x \in {v}} : TRUE

SeqMin(S) == CHOOSE x \in S : \A y \in S : x <= y

SeqMax(S) == CHOOSE x \in S : \A y \in S : y <= x

RECURSIVE SumTo(_, _)
SumTo(s, n) == IF n = 0 THEN 0 ELSE SumTo(s, n - 1) + s[n]

SumSeq(s) == Bind(s, LAMBDA x : SumTo(x, Len(x)))

RECURSIVE SelectIdx(_, _, _)
\* the elements s[i] with i in keep, in order
SelectIdx(s, keep, i) ==
    IF i > Len(s) THEN <<>>
    ELSE (IF i \in keep THEN <<s[i]>> ELSE <<>>) \o SelectIdx(s, keep, i + 1)

----------------------------------------------------------------------------
(* Strings: the str methods the script uses.                               *)

Chr(s, i) == SubSeq(s, i, i)

\* Python's `k in c` for two strings
Contains(k, c) ==
    \E i \in 1..(Len(c) - Len(k) + 1) : SubSeq(c, i, i + Len(k) - 1) = k

UpperChars == "ABCDEFGHIJKLMNOPQRSTUVWXYZ"
LowerChars == "abcdefghijklmnopqrstuvwxyz"

LowerChar(ch) ==
    IF \E i \in 1..26 : Chr(UpperChars, i) = ch
    THEN Chr(LowerChars, CHOOSE i \in 1..26 : Chr(UpperChars, i) = ch)
    ELSE ch

RECURSIVE LowerFrom(_, _)
LowerFrom(s, i) ==
    IF i > Len(s) THEN "" ELSE LowerChar(Chr(s, i)) \o LowerFrom(s, i + 1)

\* str.lower()
Lower(s) == LowerFrom(s, 1)

IsSpace(ch) == ch = " "

\* str.strip(): from the first to the last character that is no whitespace
Strip(s) ==
    IF \A i \in 1..Len(s) : IsSpace(Chr(s, i)) THEN ""
    ELSE SubSeq(s, SeqMin({i \in 1..Len(s) : ~IsSpace(Chr(s, i))}),
                   SeqMax({i \in 1..Len(s) : ~IsSpace(Chr(s, i))}))

RECURSIVE RemoveFrom(_, _, _)
RemoveFrom(s, k, i) ==
    IF i > Len(s) THEN ""
    ELSE IF i + Len(k) - 1 <= Len(s) /\ SubSeq(s, i, i + Len(k) - 1) = k
    THEN RemoveFrom(s, k, i + Len(k))
    ELSE Chr(s, i) \o RemoveFrom(s, k, i + 1)

\* str.replace(k, ""): every non-overlapping occurrence of k, left to right
Remove(s, k) == RemoveFrom(s, k, 1)

Digits == "0123456789"

IsDigit(ch) == \E i \in 1..10 : Chr(Digits, i) = ch

DigitVal(ch) == (CHOOSE i \in 1..10 : Chr(Digits, i) = ch) - 1

AllDigits(s) == \A i \in 1..Len(s) : IsDigit(Chr(s, i))

RECURSIVE DigitsTo(_, _)
DigitsTo(s, n) == IF n = 0 THEN 0 ELSE DigitsTo(s, n - 1) * 10 + DigitVal(Chr(s, n))

\* The number a string of digits writes
DigitsVal(s) == DigitsTo(s, Len(s))

----------------------------------------------------------------------------
(* Cells and frames.                                                       *)

\* a number n/1000
Num(n) == [t |-> "num", n |-> n, s |-> ""]
Str(s) == [t |-> "str", n |-> 0, s |-> s]
\* a calendar date yyyymmdd
Date(d) == [t |-> "date", n |-> d, s |-> ""]
\* NaN, NaT, None: the missing value
NaN == [t |-> "nan", n |-> 0, s |-> ""]

Milli(n) == n * 1000

YMD(y, m, d) == y * 10000 + m * 100 + d

Frame(cols, rows) == [cols |-> cols, rows |-> rows]

EmptyFrame == Frame(<<>>, <<>>)

\* c in df.columns
HasCol(df, c) == \E i \in 1..Len(df.cols) : df.cols[i] = c

\* df[c] selects by label; the frames of the model hold no label twice, and
\* the first position stands for the column
ColIdx(df, c) == SeqMin({i \in 1..Len(df.cols) : df.cols[i] = c})

Cell(df, r, c) == df.rows[r][ColIdx(df, c)]

\* Each (label, value) of cv whose label df lacks becomes a new column
AddMissing(df, cv) ==
    Bind(SelectSeq(cv, LAMBDA x : ~HasCol(df, x[1])), LAMBDA new :
        Frame(df.cols \o [i \in 1..Len(new) |-> new[i][1]],
              [r \in 1..Len(df.rows) |-> df.rows[r] \o [i \in 1..Len(new) |-> new[i][2]]]))

\* df[mask]: the rows of keep, in their order
Rows(df, keep) == Bind(keep, LAMBDA k : Frame(df.cols, SelectIdx(df.rows, k, 1)))

----------------------------------------------------------------------------
(* LOAD DATA SAFELY: lines 51-96.                                          *)

FILE_COLUMNS == <<"bank", "model", "predicted", "confirmed", "accuracy", "date">>

None == [ok |-> FALSE, col |-> ""]

Some(c) == [ok |-> TRUE, col |-> c]

\* df.columns.str.lower().str.strip()
NormalizeHeaders(cols) ==
    [i \in 1..Len(cols) |-> Bind(Lower(cols[i]), LAMBDA l : Strip(l))]

\* the first column, in column order, that contains one of the keys
find_col(cols, keys) ==
    Bind({i \in 1..Len(cols) : \E j \in 1..Len(keys) : Contains(keys[j], cols[i])},
         LAMBDA hits : IF hits = {} THEN None ELSE Some(cols[SeqMin(hits)]))

\* find_col(["bank"]), find_col(["model"]), ...: one call per canonical field
Found(cols) == [f \in 1..Len(FILE_COLUMNS) |-> find_col(cols, <<FILE_COLUMNS[f]>>)]

\* The dict literal of line 61: its six key expressions are evaluated in order
\* and a key that occurs again replaces the value stored for it, so the value
\* of a header is the LAST field that found it.  (A None key names no column.)
DictValue(fs) == FILE_COLUMNS[SeqMax(fs)]

\* df.rename(columns={...}): a label that is a key of the dict is replaced
Renamed(cols, found) ==
    [i \in 1..Len(cols) |->
        Bind({f \in 1..Len(FILE_COLUMNS) : found[f] = Some(cols[i])},
             LAMBDA fs : IF fs = {} THEN cols[i] ELSE DictValue(fs))]

REQUIRED_COLUMNS ==
    << <<"predicted", Num(0)>>, <<"confirmed", Num(0)>>, <<"accuracy", Num(0)>>,
       <<"status", Str("Active")>>, <<"alert_date", NaN>> >>

\* for col, default in REQUIRED_COLUMNS.items(): if col not in df.columns: ...
ForceCreate(df) == AddMissing(df, REQUIRED_COLUMNS)

\* The position of the decimal point of s, or Len(s) + 1
PointAt(s) ==
    IF Contains(".", s) THEN SeqMin({i \in 1..Len(s) : Chr(s, i) = "."}) ELSE Len(s) + 1

\* Thousandths written by the digits after the point (three are kept)
FracVal(f) == Bind(SubSeq(f \o "000", 1, 3), LAMBDA g : DigitsVal(g))

\* [-]digits[.digits], and nothing else, is a number
ParseSigned(t) ==
    Bind(IF t # "" /\ Chr(t, 1) = "-" THEN SubSeq(t, 2, Len(t)) ELSE t, LAMBDA b :
    Bind(PointAt(b), LAMBDA pt :
    Bind(<<SubSeq(b, 1, pt - 1), SubSeq(b, pt + 1, Len(b))>>, LAMBDA w :
        IF w[1] # "" /\ AllDigits(w[1]) /\ AllDigits(w[2])
        THEN Num((IF b = t THEN 1 ELSE -1) * (Milli(DigitsVal(w[1])) + FracVal(w[2])))
        ELSE NaN)))

\* The parser behind pd.to_numeric for a str: surrounding whitespace is
\* skipped and the rest must be a number.  No thousands separator is
\* configured, so a "," is a character that does not parse.
ParseNumber(s) == Bind(Strip(s), LAMBDA t : ParseSigned(t))

\* pd.to_numeric(..., errors="coerce") on one cell
ToNumeric(c) ==
    CASE c.t = "num" -> c
      [] c.t = "str" -> ParseNumber(c.s)
      [] OTHER       -> NaN

\* .fillna(0)
FillNa0(c) == IF c.t = "nan" THEN Num(0) ELSE c

\* lines 86-88, one cell
CoerceNumeric(c) == Bind(ToNumeric(c), LAMBDA x : FillNa0(x))

\* A str "YYYY-MM-DD" is the date it writes; any other str of the model is
\* no date
ParseDate(s) ==
    IF /\ Len(s) = 10 /\ Chr(s, 5) = "-" /\ Chr(s, 8) = "-"
       /\ AllDigits(SubSeq(s, 1, 4)) /\ AllDigits(SubSeq(s, 6, 7))
       /\ AllDigits(SubSeq(s, 9, 10))
       /\ DigitsVal(SubSeq(s, 6, 7)) \in 1..12
       /\ DigitsVal(SubSeq(s, 9, 10)) \in 1..31
    THEN Date(YMD(DigitsVal(SubSeq(s, 1, 4)), DigitsVal(SubSeq(s, 6, 7)),
                  DigitsVal(SubSeq(s, 9, 10))))
    ELSE NaN

\* pd.to_datetime(..., errors="coerce") on one cell; a number is nanoseconds
\* after the epoch
ToDatetime(c) ==
    CASE c.t = "date" -> c
      [] c.t = "str"  -> Bind(Strip(c.s), LAMBDA t : ParseDate(t))
      [] c.t = "num"  -> Date(YMD(1970, 1, 1))
      [] OTHER        -> NaN

\* lines 86-88: the three numeric columns, cell by cell
CoerceNumbers(df) ==
    Frame(df.cols,
          [r \in 1..Len(df.rows) |->
              [i \in 1..Len(df.cols) |->
                  IF df.cols[i] \in {"predicted", "confirmed", "accuracy"}
                  THEN CoerceNumeric(df.rows[r][i]) ELSE df.rows[r][i]]])

\* line 89
CoerceDates(df) ==
    Frame(df.cols,
          [r \in 1..Len(df.rows) |->
              [i \in 1..Len(df.cols) |->
                  IF df.cols[i] = "date" THEN ToDatetime(df.rows[r][i]) ELSE df.rows[r][i]]])

\* date.today(): the day the session runs
Today == YMD(2024, 3, 5)

\* Days before the first of each month; the dates of the model lie in 2024
DaysBefore == <<0, 31, 60, 91, 121, 152, 182, 213, 244, 274, 305, 335>>

DayNumber(d) == DaysBefore[(d \div 100) % 100] + (d % 100)

\* lines 95-96, one cell of alert_date
SlaDays(c) ==
    Bind(ToDatetime(c), LAMBDA a :
        IF a.t = "date" THEN Num(Milli(DayNumber(Today) - DayNumber(a.n))) ELSE Num(0))

\* df["sla_days"] = ..., row by row from alert_date
WithSlaDays(df) ==
    IF HasCol(df, "sla_days")
    THEN Frame(df.cols,
               [r \in 1..Len(df.rows) |->
                   [df.rows[r] EXCEPT ![ColIdx(df, "sla_days")] =
                       SlaDays(Cell(df, r, "alert_date"))]])
    ELSE Frame(Append(df.cols, "sla_days"),
               [r \in 1..Len(df.rows) |->
                   Append(df.rows[r], SlaDays(Cell(df, r, "alert_date")))])

\* Lines 51-96.  err is the exception that ends the run ("" for none).
Load(f) ==
    Bind(NormalizeHeaders(f.cols), LAMBDA hdr :
    Bind(Found(hdr), LAMBDA found :
    Bind(ForceCreate(Frame(Renamed(hdr, found), f.rows)), LAMBDA df1 :
    Bind(CoerceNumbers(df1), LAMBDA df2 :
        IF ~HasCol(df2, "date")
        THEN [err |-> "KeyError: 'date'", found |-> found, df |-> df2]
        ELSE Bind(CoerceDates(df2), LAMBDA df3 :
                 [err |-> "", found |-> found, df |-> WithSlaDays(df3)])))))

----------------------------------------------------------------------------
(* Views: lines 130-146 and 220-271.                                       *)

ALERT_THRESHOLD == 40000

\* df["date"].dropna().dt.date.unique(): the select box's options (sorted
\* latest first; the set is what the model keeps)
DateOptions(df) ==
    {Cell(df, r, "date").n : r \in {q \in 1..Len(df.rows) : Cell(df, q, "date").t = "date"}}

\* The value of the select box: the session's choice while it is still an
\* option, else the first option (the latest date), None (0) without options
SelectedDate(df, sel) ==
    Bind(DateOptions(df), LAMBDA opts :
        IF sel \in opts THEN sel ELSE IF opts = {} THEN 0 ELSE SeqMax(opts))

\* filtered_df = df[df["date"].dt.date == selected_date]
Filtered(df, d) ==
    Rows(df, {r \in 1..Len(df.rows) : Cell(df, r, "date") = Date(d)})

ColSum(df, c) == SumSeq([r \in 1..Len(df.rows) |-> Cell(df, r, c).n])

\* Critical with the threshold itself included: C7 must tell the two apart
CriticalInclusive(df) ==
    {r \in 1..Len(df.rows) : Cell(df, r, "accuracy").n <= ALERT_THRESHOLD}

\* (filtered_df["accuracy"] < ALERT_THRESHOLD): the rows of the mask
Critical(df) == {r \in 1..Len(df.rows) : Cell(df, r, "accuracy").n < ALERT_THRESHOLD}

\* The four metrics of lines 143-146; the mean is kept as sum and count
Kpis(fdf) ==
    [predicted |-> ColSum(fdf, "predicted") \div 1000,
     confirmed |-> ColSum(fdf, "confirmed") \div 1000,
     acc_sum   |-> ColSum(fdf, "accuracy"),
     acc_n     |-> Len(fdf.rows),
     critical  |-> Cardinality(Critical(fdf))]

NoKpis == [predicted |-> 0, confirmed |-> 0, acc_sum |-> 0, acc_n |-> 0, critical |-> 0]

DISPLAY_COLS == <<"bank", "model", "accuracy", "status", "sla_days">>

\* lines 222-228: for col in DISPLAY_COLS: if col not in alerts.columns:
\* alerts[col] = "N/A"
Alerts(fdf) ==
    Bind(Rows(fdf, Critical(fdf)), LAMBDA a :
        AddMissing(a, [i \in 1..Len(DISPLAY_COLS) |-> <<DISPLAY_COLS[i], Str("N/A")>>]))

\* Band with its lower bounds excluded: C6 must tell the two apart
BandExclusive(x) == IF x > 70000 THEN "High" ELSE IF x > 50000 THEN "Medium" ELSE "Low"

\* The lambda of line 255
Band(x) == IF x >= 70000 THEN "High" ELSE IF x >= 50000 THEN "Medium" ELSE "Low"

\* filtered_df["band"] = filtered_df["accuracy"].apply(...)
WithBand(fdf) ==
    Frame(Append(fdf.cols, "band"),
          [r \in 1..Len(fdf.rows) |->
              Append(fdf.rows[r], Str(Band(Cell(fdf, r, "accuracy").n)))])

\* The group keys of groupby("bank"): the bank names that are not missing
BankKeys(fdf) ==
    {Cell(fdf, r, "bank").s : r \in {q \in 1..Len(fdf.rows) : Cell(fdf, q, "bank").t = "str"}}

\* filtered_df.groupby("bank")[["predicted", "confirmed"]].sum()
BankSummary(fdf) ==
    [b \in BankKeys(fdf) |->
        Bind(Rows(fdf, {r \in 1..Len(fdf.rows) : Cell(fdf, r, "bank") = Str(b)}), LAMBDA g :
            [predicted |-> ColSum(g, "predicted"), confirmed |-> ColSum(g, "confirmed")])]

\* dt.to_period("M"): the month yyyymm of a date
MonthOf(d) == d \div 100

\* df.groupby(df["date"].dt.to_period("M"))["accuracy"].mean(), as sum and count
Trend(df) ==
    Bind({r \in 1..Len(df.rows) : Cell(df, r, "date").t = "date"}, LAMBDA dated :
        [m \in {MonthOf(Cell(df, r, "date").n) : r \in dated} |->
            Bind(Rows(df, {r \in dated : MonthOf(Cell(df, r, "date").n) = m}), LAMBDA g :
                [acc_sum |-> ColSum(g, "accuracy"), acc_n |-> Len(g.rows)])])

----------------------------------------------------------------------------
(* Email: lines 151-214 and 235-237.                                       *)

EMAIL_MAP ==
    [k \in {"bandhan", "hdfc"} |->
        IF k = "bandhan" THEN "manishroyalkondeti@gmail.com"
        ELSE "manishroyalkondeti43@gmail.com"]

normalize_bank(b) ==
    Bind(Lower(b), LAMBDA l : Bind(Remove(l, "bank"), LAMBDA x : Strip(x)))

\* send_alert(row) for row r of the alerts frame; smtp tells whether the SMTP
\* session of this call (connect, starttls, login, send_message) goes through.
\* The result is the string returned, or the exception raised: a bank cell
\* that is no str has no lower().
send_alert(a, r, smtp) ==
    Bind(Cell(a, r, "bank"), LAMBDA b :
        IF b.t # "str"
        THEN [raised |-> TRUE, kind |-> "AttributeError", to |-> "", row |-> r]
        ELSE Bind(normalize_bank(b.s), LAMBDA key :
            IF key \notin DOMAIN EMAIL_MAP
            THEN [raised |-> FALSE, kind |-> "No email mapping", to |-> "", row |-> r]
            ELSE IF ~smtp
            THEN [raised |-> TRUE, kind |-> "SMTPException", to |-> "", row |-> r]
            ELSE [raised |-> FALSE, kind |-> "Alert email sent",
                  to |-> EMAIL_MAP[key], row |-> r]))

RECURSIVE SendLoop(_, _, _)
\* for _, r in alerts.iterrows(): st.success(send_alert(r)).  An exception
\* raised by send_alert is caught nowhere: it ends the loop and the run.
SendLoop(a, smtp, r) ==
    IF r > Len(a.rows) THEN <<>>
    ELSE Bind(send_alert(a, r, smtp[r]), LAMBDA res :
             IF res.raised THEN <<res>> ELSE <<res>> \o SendLoop(a, smtp, r + 1))

----------------------------------------------------------------------------
(* One run of the script.                                                  *)

USERS ==
    [n \in {"admin", "bank"} |->
        IF n = "admin" THEN [password |-> "admin123", role |-> "Admin"]
        ELSE [password |-> "bank123", role |-> "Bank"]]

\* ValidLogin without the password: C10 must tell the two apart
ValidLoginAnyPassword(uu, pp) == uu \in DOMAIN USERS

\* line 38
ValidLogin(uu, pp) == uu \in DOMAIN USERS /\ USERS[uu].password = pp

\* line 32: the run goes on past the login block only with the flag set
PastGate(l) == l

\* FormVisible for every role: C8 must tell the two apart
FormVisibleAnyRole(r) == TRUE

\* line 101
FormVisible(r) == r = "Admin"

\* The run that st.stop() ends at line 44: nothing after the gate exists
GateStop(ev) ==
    [ev |-> ev, stage |-> "gate", err |-> "", found |-> <<>>, df |-> EmptyFrame,
     form |-> FALSE, selected |-> 0, views |-> <<>>, kpi |-> NoKpis,
     alerts |-> EmptyFrame, button |-> FALSE, pressed |-> FALSE, outcomes |-> <<>>,
     summary |-> [b \in {} |-> 0], table |-> EmptyFrame, trend |-> [m \in {} |-> 0]]

\* Lines 130-271 for the loaded frame df
Render(base, df, sel, press, smtp, r) ==
    Bind(SelectedDate(df, sel), LAMBDA d :
    Bind(Filtered(df, d), LAMBDA fdf :
    Bind(Alerts(fdf), LAMBDA al :
    Bind(IF press /\ al.rows # <<>> THEN SendLoop(al, smtp, 1) ELSE <<>>, LAMBDA sent :
    Bind([base EXCEPT !.form = FormVisible(r), !.selected = d,
                      !.kpi = Kpis(fdf), !.alerts = al,
                      !.button = (al.rows # <<>>),
                      !.pressed = (press /\ al.rows # <<>>),
                      !.outcomes = sent,
                      !.views = <<"date_filter", "kpis", "alerts">>], LAMBDA upto :
        IF sent # <<>> /\ sent[Len(sent)].raised
        THEN [upto EXCEPT !.stage = "error", !.err = sent[Len(sent)].kind]
        ELSE IF ~HasCol(fdf, "bank")
        THEN [upto EXCEPT !.stage = "error", !.err = "KeyError: 'bank'"]
        ELSE [upto EXCEPT !.stage = "done",
                          !.views = upto.views \o <<"bar", "pie", "trend", "table">>,
                          !.summary = BankSummary(fdf),
                          !.table = WithBand(fdf),
                          !.trend = Trend(df)])))))

\* Lines 46-271 for the workbook f.  sel is the select box's session value,
\* press whether this run is the one the Send Alert Emails button started,
\* smtp the fate of each SMTP session, r the session's role.  An exception
\* ends the run where it is raised; what was rendered before it stays.
Script(f, ev, sel, press, smtp, r) ==
    Bind(Load(f), LAMBDA ld :
        IF ld.err # ""
        THEN [GateStop(ev) EXCEPT !.found = ld.found, !.df = ld.df,
                                  !.stage = "error", !.err = ld.err]
        ELSE Render([GateStop(ev) EXCEPT !.found = ld.found, !.df = ld.df],
                    ld.df, sel, press, smtp, r))

\* Any run starts at the gate
RunScript(f, ev, sel, press, smtp, l, r) ==
    IF PastGate(l) THEN Script(f, ev, sel, press, smtp, r) ELSE GateStop(ev)

----------------------------------------------------------------------------
(* Add / Update Bank: lines 101-127.                                       *)

NEW_ROW_KEYS ==
    <<"bank", "model", "predicted", "confirmed", "accuracy", "date", "status", "alert_date">>

\* new_row of lines 114-123
NewRow(b, m, pr, cf, a, d, status) ==
    [k \in {NEW_ROW_KEYS[i] : i \in 1..Len(NEW_ROW_KEYS)} |->
        CASE k = "bank"       -> Str(b)
          [] k = "model"      -> Str(m)
          [] k = "predicted"  -> Num(Milli(pr))
          [] k = "confirmed"  -> Num(Milli(cf))
          [] k = "accuracy"   -> Num(a)
          [] k = "date"       -> Date(d)
          [] k = "status"     -> Str(status)
          [] k = "alert_date" -> IF a < ALERT_THRESHOLD THEN Date(d) ELSE NaN]

\* pd.concat([df, pd.DataFrame([new_row])], ignore_index=True): the union of
\* the labels, the frame's first; a cell neither side has is missing
Concat(df, nr) ==
    Bind(AddMissing(df, [i \in 1..Len(NEW_ROW_KEYS) |-> <<NEW_ROW_KEYS[i], NaN>>]), LAMBDA old :
        Frame(old.cols,
              Append(old.rows,
                     [i \in 1..Len(old.cols) |->
                         IF old.cols[i] \in DOMAIN nr THEN nr[old.cols[i]] ELSE NaN])))

\* Strings read_excel reads as a missing value (its default na_values; the
\* ones a text input of the model can hold)
NaStrings == {"", "N/A", "NA", "n/a", "nan", "NaN", "null", "NULL", "None"}

\* A cell written by to_excel and read back by read_excel
ExcelCell(c) == IF c.t = "str" /\ c.s \in NaStrings THEN NaN ELSE c

\* df.to_excel(FILE_PATH, index=False), as the next read_excel returns it
ToExcel(df) ==
    Frame(df.cols, [r \in 1..Len(df.rows) |->
                       [i \in 1..Len(df.cols) |-> ExcelCell(df.rows[r][i])]])

\* lines 124-125 for the loaded frame
Saved(f, nr) ==
    Bind(Load(f), LAMBDA ld : Bind(Concat(ld.df, nr), LAMBDA df : ToExcel(df)))

----------------------------------------------------------------------------
(* The workbooks and inputs of the model.                                  *)

MaxAppends == 1

Jan10 == YMD(2024, 1, 10)
Feb05 == YMD(2024, 2, 5)

Record(b, m, pr, cf, ac, d) ==
    [bank |-> b, model |-> m, predicted |-> pr, confirmed |-> cf, accuracy |-> ac, date |-> d]

\* The two-row sheet of a bank written once, its second model row left blank
SheetTwoRows ==
    << Record(Str("A Bank"), Str("M1"), Str("1,000"), Str("200"), Num(45500), Str("2024-01-01")),
       Record(NaN, Str("M2"), Str("500"), Str("100"), Num(80000), Str("2024-01-01")) >>

\* Bank names written once per block; string-typed and odd numeric cells
SheetBlocks ==
    << Record(Str("HDFC Bank"), Str("M1"), Str("1,234"), Num(Milli(200)), Num(70000), Date(Jan10)),
       Record(NaN, Str("M2"), Str(" 12 "), Str("abc"), Num(69999), Date(Jan10)),
       Record(NaN, Str("M3"), Num(Milli(1234)), Str("45.5"), Num(50000), Date(Jan10)),
       Record(Str("X Bank"), Str("M1"), Str("500"), Str("1,0"), Num(49999), Date(Jan10)),
       Record(NaN, Str("M2"), NaN, Str("-"), Str("35"), Str("tbd")) >>

SheetXY ==
    << Record(Str("X"), Str("M1"), Num(Milli(10)), Num(Milli(5)), Num(Milli(35)), Date(Jan10)),
       Record(Str("Y"), Str("M1"), Num(Milli(10)), Num(Milli(5)), Num(Milli(55)), Date(Jan10)) >>

\* One bank with two models on a date, and a second date
SheetModels ==
    << Record(Str("X"), Str("M1"), Num(Milli(10)), Num(Milli(5)), Num(Milli(30)), Date(Jan10)),
       Record(Str("X"), Str("M2"), Num(Milli(10)), Num(Milli(5)), Num(Milli(60)), Date(Jan10)),
       Record(Str("Y"), Str("M1"), Num(Milli(10)), Num(Milli(5)), Num(Milli(40)), Date(Jan10)),
       Record(Str("Y"), Str("M1"), Num(Milli(10)), Num(Milli(5)), Num(39999), Date(Feb05)) >>

\* Three critical records: a bank without an address, then two with one
SheetMail ==
    << Record(Str("X"), Str("M1"), Num(Milli(10)), Num(Milli(5)), Num(Milli(10)), Date(Jan10)),
       Record(Str("HDFC Bank"), Str("M1"), Num(Milli(10)), Num(Milli(5)), Num(Milli(30)), Date(Jan10)),
       Record(Str("Bandhan"), Str("M2"), Num(Milli(10)), Num(Milli(5)), Num(Milli(20)), Date(Jan10)) >>

Sheets == {SheetTwoRows, SheetBlocks, SheetXY, SheetModels, SheetMail}

\* A layout is the header row: each header with the field its cells hold
LayoutFull ==
    << <<"Bank Name", "bank">>, <<"Model", "model">>, <<" Predicted Mules", "predicted">>,
       <<"Confirmed Mules ", "confirmed">>, <<"Accuracy %", "accuracy">>, <<"Date", "date">> >>

\* One header that two canonical fields' keys match
LayoutBankModel ==
    << <<"bank model", "bank">>, <<"type", "model">>, <<"predicted", "predicted">>,
       <<"confirmed", "confirmed">>, <<"accuracy", "accuracy">>, <<"date", "date">> >>

LayoutModelAccuracy ==
    << <<"bank", "bank">>, <<"model accuracy", "accuracy">>, <<"predicted", "predicted">>,
       <<"confirmed", "confirmed">>, <<"date", "date">> >>

Canonical == [i \in 1..Len(FILE_COLUMNS) |-> <<FILE_COLUMNS[i], FILE_COLUMNS[i]>>]

\* The canonical layout without the header of field f
Without(f) == SelectSeq(Canonical, LAMBDA h : h[2] # f)

\* ... and with a header no key matches in its place
Unmatched(f) ==
    [i \in 1..Len(Canonical) |->
        IF Canonical[i][2] = f THEN <<"institution", f>> ELSE Canonical[i]]

Layouts ==
    {LayoutBankModel, LayoutModelAccuracy, Unmatched("bank")}
        \cup {Without(FILE_COLUMNS[i]) : i \in 2..Len(FILE_COLUMNS)}

Book(layout, sheet) ==
    Frame([i \in 1..Len(layout) |-> layout[i][1]],
          [r \in 1..Len(sheet) |-> [i \in 1..Len(layout) |-> sheet[r][layout[i][2]]]])

Books ==
    {Book(LayoutFull, sh) : sh \in Sheets} \cup {Book(l, SheetMail) : l \in Layouts}

Usernames == {"admin", "bank", "guest"}
Passwords == {"admin123", "bank123", ""}

FormBanks == {"Bandhan Bank", ""}
FormAccuracies == {Milli(35), Milli(70)}
FormDates == {Feb05}

----------------------------------------------------------------------------
(* The session.                                                            *)

\* The state after the first run of a new session: the login form
Init ==
    /\ login = FALSE
    /\ role = ""
    /\ u = ""
    /\ p = ""
    /\ file \in Books
    /\ appends = 0
    /\ out = GateStop("open")

\* The Login button, lines 37-44; a valid attempt ends in st.rerun()
Login(uu, pp) ==
    /\ ~login
    /\ u' = uu
    /\ p' = pp
    /\ IF ValidLogin(uu, pp)
       THEN /\ login' = TRUE
            /\ role' = USERS[uu].role
            /\ out' = RunScript(file, "login", 0, FALSE, <<>>, TRUE, USERS[uu].role)
       ELSE /\ out' = [GateStop("login") EXCEPT !.err = "Invalid credentials"]
            /\ UNCHANGED <<login, role>>
    /\ UNCHANGED <<file, appends>>

\* A run no widget event started (the page is run again)
Rerun ==
    /\ out' = RunScript(file, "rerun", out.selected, FALSE, <<>>, login, role)
    /\ UNCHANGED <<login, role, u, p, file, appends>>

\* The options of the select box as the last run rendered it
ShownOptions == IF out.views # <<>> THEN DateOptions(out.df) ELSE {}

\* The Select Date box, line 134
SelectDate(d) ==
    /\ d \in ShownOptions
    /\ out' = RunScript(file, "select", d, FALSE, <<>>, login, role)
    /\ UNCHANGED <<login, role, u, p, file, appends>>

\* The Save button of the add_bank form, lines 113-127: the record is
\* appended, the workbook rewritten, and st.rerun() runs the script again
AddBank(b, m, pr, cf, a, d, status) ==
    /\ out.form
    /\ appends < MaxAppends
    /\ \E saved \in {Saved(file, NewRow(b, m, pr, cf, a, d, status))} :
           /\ file' = saved
           /\ out' = RunScript(saved, "add", out.selected, FALSE, <<>>, login, role)
    /\ appends' = appends + 1
    /\ UNCHANGED <<login, role, u, p>>

\* The Send Alert Emails button, lines 235-237
SendAlertEmails(smtp) ==
    /\ out.button
    /\ out' = RunScript(file, "send", out.selected, TRUE, smtp, login, role)
    /\ UNCHANGED <<login, role, u, p, file, appends>>

Next ==
    \/ \E uu \in Usernames, pp \in Passwords : Login(uu, pp)
    \/ Rerun
    \/ \E d \in ShownOptions : SelectDate(d)
    \/ \E b \in FormBanks, a \in FormAccuracies, d \in FormDates :
           AddBank(b, "M9", 10, 5, a, d, "Active")
    \/ \E smtp \in [1..Len(out.alerts.rows) -> BOOLEAN] : SendAlertEmails(smtp)

Spec == Init /\ [][Next]_vars

----------------------------------------------------------------------------
(* What the claims are about.                                              *)

\* A run that got past the gate and loaded the workbook
Loaded == out.stage # "gate"

\* A run that reached the views of lines 130-146
Viewed == out.views # <<>>

\* The number of a canonical field in declaration order
FieldNo(name) == CHOOSE f \in 1..Len(FILE_COLUMNS) : FILE_COLUMNS[f] = name

BANK == FieldNo("bank")

ACCURACY == FieldNo("accuracy")

Required == {BANK, ACCURACY}

Optional == {f \in 1..Len(FILE_COLUMNS) : f \notin Required}

KeyErrors == {"KeyError: 'date'", "KeyError: 'bank'"}

\* The normalized headers of the workbook the last run read
Headers == NormalizeHeaders(file.cols)

\* The position of header h
HeaderAt(h) == SeqMin({i \in 1..Len(Headers) : Headers[i] = h})

\* C1: when the keys of two canonical fields f, g (f declared before g) both
\* match the same first header, the column of that header is given to f, and
\* g gets the first of the other headers that its key matches.
C1_EarlierFieldWins ==
    Loaded =>
        \A f \in 1..Len(FILE_COLUMNS), g \in 1..Len(FILE_COLUMNS) :
            (f < g /\ out.found[f].ok /\ out.found[g] = out.found[f]) =>
                LET h    == HeaderAt(out.found[f].col)
                    rest == {i \in 1..Len(Headers) :
                                i # h /\ Contains(FILE_COLUMNS[g], Headers[i])}
                IN  /\ out.df.cols[h] = FILE_COLUMNS[f]
                    /\ rest # {} => out.df.cols[SeqMin(rest)] = FILE_COLUMNS[g]

\* The case of C1: two fields found the same header
C1_SharedHeader ==
    /\ Loaded
    /\ \E f \in 1..Len(FILE_COLUMNS), g \in 1..Len(FILE_COLUMNS) :
           f < g /\ out.found[f].ok /\ out.found[g] = out.found[f]

\* C2: a run whose workbook has no header for bank or for accuracy ends in an
\* error before any view is computed.
C2_RequiredFieldMissingFails ==
    (Loaded /\ \E f \in Required : ~out.found[f].ok) =>
        (out.stage = "error" /\ out.views = <<>>)

\* C3: a run whose workbook lacks the header of one optional field (and of no
\* other field) has that column after the load, and no missing column ends it.
C3_OptionalFieldMissingDefaults ==
    \A f \in Optional :
        (Loaded /\ \A g \in 1..Len(FILE_COLUMNS) : out.found[g].ok <=> g # f) =>
            (HasCol(out.df, FILE_COLUMNS[f]) /\ out.err \notin KeyErrors)

\* A cell that holds no bank name
Blank(c) == c.t = "nan" \/ (c.t = "str" /\ Strip(c.s) = "")

\* The bank cells of the workbook, in row order
RawBanks == [r \in 1..Len(file.rows) |-> file.rows[r][HeaderAt(out.found[BANK].col)]]

\* The rows of the workbook with a bank name at or before them
Named == {r \in 1..Len(file.rows) : \E q \in 1..r : ~Blank(RawBanks[q])}

\* The nearest bank name at or before row r
NearestBank(r) == RawBanks[SeqMax({q \in 1..r : ~Blank(RawBanks[q])})]

\* C4: the bank column of the table is the workbook's, filled forward, the
\* leading rows without a bank name dropped; no bank name of it is blank.
C4_BankNameFilledForward ==
    (Loaded /\ out.found[BANK].ok /\ HasCol(out.df, "bank")) =>
        /\ Len(out.df.rows) = Cardinality(Named)
        /\ \A r \in Named :
               Cell(out.df, r - (Len(file.rows) - Cardinality(Named)), "bank") = NearestBank(r)

\* The number a cell's string denotes once its thousands separators are
\* taken out (NaN when it denotes none)
Denoted(txt) == ParseNumber(Remove(txt, ","))

\* C5: after the coercion a numeric cell holds the value it held, and a string
\* cell that denotes a number (separators, surrounding whitespace) holds that
\* number.
C5_CoercionSeparatorTolerant ==
    Loaded =>
        \A r \in 1..Len(file.rows), i \in 1..Len(file.cols) :
            out.df.cols[i] \in {"predicted", "confirmed", "accuracy"} =>
                /\ file.rows[r][i].t = "num" => out.df.rows[r][i] = file.rows[r][i]
                /\ (file.rows[r][i].t = "str" /\ Denoted(file.rows[r][i].s).t = "num")
                       => out.df.rows[r][i] = Denoted(file.rows[r][i].s)

\* The accuracy and the band of row r of the displayed table
ShownAccuracy(r) == Cell(out.table, r, "accuracy").n
ShownBand(r) == Cell(out.table, r, "band").s

\* C6 (as amended): the band of a displayed record is High exactly when its
\* accuracy is at least 70, Medium exactly when it is at least 50 and below
\* 70, and Low exactly when it is below 50.
C6_BandByAccuracy ==
    \A r \in 1..Len(out.table.rows) :
        /\ ShownBand(r) = "High" <=> ShownAccuracy(r) >= 70000
        /\ ShownBand(r) = "Medium" <=> (ShownAccuracy(r) >= 50000 /\ ShownAccuracy(r) < 70000)
        /\ ShownBand(r) = "Low" <=> ShownAccuracy(r) < 50000

\* The case of C6: a table that shows 70.0, 69.999, 50.0 and 49.999
C6_BoundariesShown ==
    {70000, 69999, 50000, 49999} \subseteq {ShownAccuracy(r) : r \in 1..Len(out.table.rows)}

\* C6 (as claimed): the bands are named Good, Medium and Poor.
C6_BandNamedGoodPoor ==
    \A r \in 1..Len(out.table.rows) :
        /\ ShownAccuracy(r) >= 70000 => ShownBand(r) = "Good"
        /\ (ShownAccuracy(r) >= 50000 /\ ShownAccuracy(r) < 70000) => ShownBand(r) = "Medium"
        /\ ShownAccuracy(r) < 50000 => ShownBand(r) = "Poor"

\* The rows of the table on the selected date
OnSelectedDate == {r \in 1..Len(out.df.rows) : Cell(out.df, r, "date") = Date(out.selected)}

\* C7 (as amended): the alerts are exactly the records of the selected date
\* whose own accuracy is below 40, in row order, and the Critical Models
\* metric counts them.
C7_AlertsArePerRecord ==
    Viewed =>
        /\ Len(out.alerts.rows) =
               Cardinality({r \in OnSelectedDate : Cell(out.df, r, "accuracy").n < 40000})
        /\ \A k \in 1..Len(out.alerts.rows) :
               \E r \in OnSelectedDate :
                   /\ Cell(out.df, r, "accuracy").n < 40000
                   /\ Cardinality({q \in OnSelectedDate :
                          q <= r /\ Cell(out.df, q, "accuracy").n < 40000}) = k
                   /\ SubSeq(out.alerts.rows[k], 1, Len(out.df.cols)) = out.df.rows[r]
        /\ out.kpi.critical = Len(out.alerts.rows)

\* The bank names of a frame's rows
BanksOf(df) == {Cell(df, r, "bank").s : r \in 1..Len(df.rows)}

\* The case of C7: records X at 35 and Y at 55 on the selected date
C7_OnlyXListed ==
    /\ Viewed
    /\ HasCol(out.df, "bank")
    /\ \E r \in OnSelectedDate : Cell(out.df, r, "bank") = Str("X")
                                  /\ Cell(out.df, r, "accuracy") = Num(35000)
    /\ \E r \in OnSelectedDate : Cell(out.df, r, "bank") = Str("Y")
                                  /\ Cell(out.df, r, "accuracy") = Num(55000)
    /\ BanksOf(out.alerts) = {"X"}

\* The records of bank b on the selected date
OfBank(b) == {r \in OnSelectedDate : Cell(out.df, r, "bank") = Str(b)}

\* mean accuracy of bank b on the selected date < 40, as sum < 40 * count
MeanBelowThreshold(b) ==
    SumSeq(SelectIdx([r \in 1..Len(out.df.rows) |-> Cell(out.df, r, "accuracy").n], OfBank(b), 1))
        < 40000 * Cardinality(OfBank(b))

\* C7 (as claimed): a bank is listed, and counted in Critical Models, exactly
\* when the mean accuracy of its records on the selected date is below 40.
C7_AlertsAreBankMeans ==
    (Viewed /\ HasCol(out.df, "bank")
        /\ \A r \in OnSelectedDate : Cell(out.df, r, "bank").t = "str") =>
        /\ BanksOf(out.alerts) =
               {b \in BanksOf(Rows(out.df, OnSelectedDate)) : MeanBelowThreshold(b)}
        /\ out.kpi.critical =
               Cardinality({b \in BanksOf(Rows(out.df, OnSelectedDate)) : MeanBelowThreshold(b)})

\* C8: a step changes the workbook only in a session whose role is Admin, and
\* then by one appended record.
C8_AppendOnlyForAdmin ==
    [][file' # file =>
          (role = "Admin" /\ role' = "Admin" /\ Len(file'.rows) = Len(file.rows) + 1)]_vars

\* The case of C8: an Admin saved a record, and the workbook holds it
C8_AdminAppended ==
    /\ role = "Admin"
    /\ out.ev = "add"
    /\ appends = 1
    /\ file \notin Books
    /\ Cell(file, Len(file.rows), "model") = Str("M9")

\* C9: a run the Send Alert Emails button started reports one outcome for
\* each record of the alerts, none of them an exception that ends the run.
C9_EveryAlertGetsOutcome ==
    (out.pressed /\ \A r \in 1..Len(out.alerts.rows) : Cell(out.alerts, r, "bank").t = "str") =>
        /\ Len(out.outcomes) = Len(out.alerts.rows)
        /\ \A k \in 1..Len(out.outcomes) : ~out.outcomes[k].raised /\ out.outcomes[k].row = k

\* The case of C9: a send over several records, one of them without address
C9_SendOverSeveral ==
    /\ out.pressed
    /\ Len(out.alerts.rows) >= 2
    /\ \E k \in 1..Len(out.outcomes) : out.outcomes[k].kind = "No email mapping"

\* C10: nothing after the gate runs without the login flag; the flag is set
\* only by an attempt with a user of USERS and that user's password, which
\* sets the role to that user's; the role is the logged-in user's while the
\* flag is set; and the flag, once set, stays set.
C10_LoginGate ==
    /\ [](Loaded => login)
    /\ [](login => (u \in DOMAIN USERS /\ role = USERS[u].role))
    /\ [][(~login /\ login') =>
             (u' \in DOMAIN USERS /\ USERS[u'].password = p' /\ role' = USERS[u'].role)]_vars
    /\ [][login => (login' /\ role' = role)]_vars

\* The case of C10: a Bank user logged in and the views were rendered
C10_BankLoggedIn ==
    /\ login
    /\ role = "Bank"
    /\ u = "bank"
    /\ out.stage = "done"

=============================================================================
